---- MODULE Spec2Model ----
(***************************************************************************)
(* Workflow / task state machine and the WorkflowOrchestrator service of   *)
(* the distributed task orchestration platform.                            *)
(*                                                                         *)
(* One workflow with a fixed set of tasks is modelled.  The persisted      *)
(* store is the pair (wf, tasks): every repository save() of a handler     *)
(* writes the record it is given, in the order in which the handler calls  *)
(* it, and a handler that raises keeps the saves it made before raising.   *)
(* A handler is one atomic action (single writer per workflow).            *)
(***************************************************************************)
EXTENDS Integers, FiniteSets, Sequences, TLC

\* ------------------------------------------------------------------ bounds

\* Largest retry_policy.max_retries drawn for a task.
MaxRetries == 1

\* Task ids of the workflows started by the orchestrator (ids are ordered
\* as the tasks were added).
Tasks == {1, 2, 3}

\* Task ids of the workflows whose tasks are also driven directly through
\* the Task operations.
ExecTasks == {1}

\* ------------------------------------------------------------ status sets

TaskStatusEnum ==
    {"pending", "queued", "running", "succeeded", "failed",
     "retrying", "cancelled", "skipped", "timeout"}

WorkflowStatusEnum ==
    {"draft", "pending", "running", "paused", "succeeded", "failed",
     "cancelled", "compensating", "compensated"}

TaskStatus_is_terminal(s) == s \in {"succeeded", "failed", "cancelled", "skipped"}

TaskStatus_is_active(s) == s \in {"running", "retrying"}

TaskStatus_is_waiting(s) == s \in {"pending", "queued"}

TaskStatus_can_retry(s) == s \in {"failed", "timeout"}

WorkflowStatus_is_terminal(s) == s \in {"succeeded", "failed", "cancelled", "compensated"}

WorkflowStatus_is_active(s) == s \in {"running", "compensating"}

WorkflowStatus_can_pause(s) == s = "running"

WorkflowStatus_can_resume(s) == s = "paused"

WorkflowStatus_can_cancel(s) == s \in {"pending", "running", "paused"}

\* ------------------------------------------------------------------ state

VARIABLES
    deps,      \* task id -> set of task ids it depends on (fixed at creation)
    policy,    \* [enabled, max_retries]: the retry policy the tasks are created with
    tasks,     \* persisted task rows: task id -> task record
    wf,        \* persisted workflow row
    crashed,   \* tasks whose completion handler crashed after its first save
    lastOp,    \* the last operation performed and how it ended
    now,       \* the clock that utcnow() reads
    flows,     \* handlers that have loaded their task and not yet gone on
    calc,      \* the last calculate_delay call: attempt, delay, previous delay
    chain,     \* number of parent_workflow_id links above the workflow
    breaker    \* the circuit breaker: its parameters, fields and calls in flight

vars == <<deps, policy, tasks, wf, crashed, lastOp, now, flows, calc, chain, breaker>>

\* What the orchestrator and Task operations neither read nor write, and the
\* clock, which they only read.
aux == <<now, flows, calc, chain, breaker>>

\* An unset timestamp (None); set timestamps are clock values >= 1.
NoTime == 0

\* No calculate_delay call has been made.
NoCalc == [attempt |-> 0, delay |-> 0, prev_attempt |-> 0, prev_delay |-> 0, calls |-> 0]

\* No circuit breaker has been built.
NoBreaker ==
    [failure_threshold |-> 0, timeout |-> 0, state |-> "closed",
     failure_count |-> 0, last_failure_time |-> NoTime, awaiting |-> 0]

\* A task as Task.__init__ leaves it.
NewTask ==
    [status |-> "pending", retry_count |-> 0, result |-> "none",
     error |-> "none", started_at |-> NoTime, completed_at |-> NoTime]

\* A workflow as Workflow.__init__ leaves it.
NewWorkflow ==
    [status |-> "draft", started_at |-> NoTime, completed_at |-> NoTime]

\* Dependency maps accepted by add_task when tasks are added in id order
\* with dependencies on tasks already present.
Graphs(S) == {g \in [S -> SUBSET S] : \A t \in S : \A d \in g[t] : d < t}

\* The ids of the tasks of the workflow.
Ids == DOMAIN deps

Policies == [enabled : BOOLEAN, max_retries : 0..MaxRetries]

Op(name, t, pre, outcome, dup) ==
    [op |-> name, task |-> t, pre |-> pre, outcome |-> outcome, dup |-> dup]

\* Whether the operation about to run repeats the one that ran last.
Repeats(name, t) == lastOp.op = name /\ lastOp.task = t

\* The store after CreateWorkflowUseCase.execute for a workflow over ids S.
Created(S) ==
    /\ deps \in Graphs(S)
    /\ policy \in Policies
    /\ tasks = [t \in S |-> NewTask]
    /\ wf = NewWorkflow
    /\ crashed = {}
    /\ lastOp = Op("create_workflow", 0, "none", "ok", FALSE)
    /\ now = 1
    /\ flows = {}
    /\ calc = NoCalc
    /\ breaker = NoBreaker
    /\ chain = 0

Init == Created(Tasks)

ExecInit == Created(ExecTasks)

\* ------------------------------------------------------------ Task entity
\* Every operation returns [t |-> the task after the call, exc |-> the
\* exception it raised or "none"].

Ret(t) == [t |-> t, exc |-> "none"]

Raise(t, e) == [t |-> t, exc |-> e]

\* A retry check that is off by one.
_can_retry_off_by_one(p, t) == p.enabled /\ t.retry_count <= p.max_retries

_can_retry(p, t) == p.enabled /\ t.retry_count < p.max_retries

Task_start(t) ==
    IF ~TaskStatus_is_waiting(t.status)
    THEN Raise(t, "InvalidEntityStateError")
    ELSE Ret([t EXCEPT !.status = "running", !.started_at = now])

\* A complete() that does not look at the status.
Task_complete_unguarded(t) ==
    Ret([t EXCEPT !.status = "succeeded", !.result = "result",
                  !.completed_at = now])

Task_complete(t) ==
    IF ~TaskStatus_is_active(t.status)
    THEN Raise(t, "InvalidEntityStateError")
    ELSE Ret([t EXCEPT !.status = "succeeded", !.result = "result",
                       !.completed_at = now])

\* A fail() that moves to failed even when retries remain.
Task_fail_no_retrying(p, t) ==
    IF ~TaskStatus_is_active(t.status)
    THEN Raise(t, "InvalidEntityStateError")
    ELSE Ret([t EXCEPT !.error = "error", !.status = "failed",
                       !.completed_at = now])

\* A fail() that moves to retrying without counting the retry.
Task_fail_no_count(p, t) ==
    IF ~TaskStatus_is_active(t.status)
    THEN Raise(t, "InvalidEntityStateError")
    ELSE IF _can_retry(p, t)
         THEN Ret([t EXCEPT !.error = "error", !.status = "retrying"])
         ELSE Ret([t EXCEPT !.error = "error", !.status = "failed",
                            !.completed_at = now])

Task_fail(p, t) ==
    IF ~TaskStatus_is_active(t.status)
    THEN Raise(t, "InvalidEntityStateError")
    ELSE IF _can_retry(p, t)
         THEN Ret([t EXCEPT !.error = "error", !.status = "retrying",
                            !.retry_count = t.retry_count + 1])
         ELSE Ret([t EXCEPT !.error = "error", !.status = "failed",
                            !.completed_at = now])

\* A retry() that counts the attempt before it looks at the policy.
Task_retry_counts_first(p, t) ==
    IF ~TaskStatus_can_retry(t.status)
    THEN Raise(t, "InvalidEntityStateError")
    ELSE IF ~_can_retry(p, t)
         THEN Raise([t EXCEPT !.retry_count = t.retry_count + 1],
                    "MaxRetryExceededError")
         ELSE Ret([t EXCEPT !.retry_count = t.retry_count + 1,
                            !.status = "running", !.started_at = now])

Task_retry(p, t) ==
    IF ~TaskStatus_can_retry(t.status)
    THEN Raise(t, "InvalidEntityStateError")
    ELSE IF ~_can_retry(p, t)
         THEN Raise(t, "MaxRetryExceededError")
         ELSE Ret([t EXCEPT !.retry_count = t.retry_count + 1,
                            !.status = "running", !.started_at = now])

Task_cancel(t) ==
    IF TaskStatus_is_terminal(t.status)
    THEN Raise(t, "InvalidEntityStateError")
    ELSE Ret([t EXCEPT !.status = "cancelled", !.completed_at = now])

\* mock is TRUE when a non-empty mock result is passed.
Task_skip(t, mock) ==
    Ret([t EXCEPT !.status = "skipped",
                  !.result = IF mock THEN "mock" ELSE "empty",
                  !.completed_at = now])

Task_timeout(t) ==
    Ret([t EXCEPT !.status = "timeout", !.error = "timeout",
                  !.completed_at = now])

\* A queue() that does not look at the status.
Task_queue_unguarded(t) == Ret([t EXCEPT !.status = "queued"])

Task_queue(t) ==
    IF t.status # "pending"
    THEN Raise(t, "InvalidEntityStateError")
    ELSE Ret([t EXCEPT !.status = "queued"])

is_ready_to_execute(t, completed_task_ids) ==
    IF deps[t] = {} THEN TRUE ELSE \A d \in deps[t] : d \in completed_task_ids

\* -------------------------------------------------------- Workflow entity

RetW(w) == [w |-> w, exc |-> "none"]

RaiseW(w, e) == [w |-> w, exc |-> e]

Workflow_start(w) ==
    IF w.status \notin {"draft", "pending"}
    THEN RaiseW(w, "InvalidEntityStateError")
    ELSE IF Ids = {}
         THEN RaiseW(w, "InvalidEntityStateError")
         ELSE RetW([w EXCEPT !.status = "running", !.started_at = now])

Workflow_complete(w) ==
    IF ~WorkflowStatus_is_active(w.status)
    THEN RaiseW(w, "InvalidEntityStateError")
    ELSE RetW([w EXCEPT !.status = "succeeded", !.completed_at = now])

Workflow_fail(w) ==
    RetW([w EXCEPT !.status = "failed", !.completed_at = now])

Workflow_pause(w) ==
    IF ~WorkflowStatus_can_pause(w.status)
    THEN RaiseW(w, "InvalidEntityStateError")
    ELSE RetW([w EXCEPT !.status = "paused"])

Workflow_resume(w) ==
    IF ~WorkflowStatus_can_resume(w.status)
    THEN RaiseW(w, "InvalidEntityStateError")
    ELSE RetW([w EXCEPT !.status = "running"])

Workflow_cancel(w) ==
    IF ~WorkflowStatus_can_cancel(w.status)
    THEN RaiseW(w, "InvalidEntityStateError")
    ELSE RetW([w EXCEPT !.status = "cancelled", !.completed_at = now])

\* A root query that returns every task.
get_root_tasks_all == Ids

\* The ways a loop can run over the ids of S: sequences holding each once.
Orders(S) ==
    {o \in [1..Cardinality(S) -> S] : \A x \in S : \E i \in DOMAIN o : o[i] = x}

\* The ids of S in the order in which ord lists them.
InOrder(S, ord) == IF S = {} THEN <<>> ELSE SelectSeq(ord, LAMBDA x : x \in S)

\* The dependency map g with task t and its dependencies D put in.
WithTask(g, t, D) ==
    [x \in DOMAIN g \cup {t} |-> IF x = t THEN D ELSE g[x]]

\* The map f without the entry of t.
WithoutTask(f, t) == [x \in DOMAIN f \ {t} |-> f[x]]

RECURSIVE has_cycle(_, _, _, _)
RECURSIVE has_cycle_loop(_, _, _, _)

\* The nested has_cycle(node) of _creates_cycle.  st holds the two sets that
\* the calls share, visited and rec_stack, and the value returned so far.
has_cycle(graph, ord, node, st) ==
    LET entered   == [st EXCEPT !.visited = @ \cup {node},
                                !.rec_stack = @ \cup {node}]
        neighbors == IF node \in DOMAIN graph THEN graph[node] ELSE {}
        r         == has_cycle_loop(graph, ord, InOrder(neighbors, ord), entered)
    IN  IF r.found THEN r ELSE [r EXCEPT !.rec_stack = @ \ {node}]

\* "for neighbor in ...": visit the ids of todo one after the other until
\* a call returns True.
has_cycle_loop(graph, ord, todo, st) ==
    IF todo = <<>> THEN st
    ELSE IF Len(todo) > 1
    THEN LET half == Len(todo) \div 2
             r    == has_cycle_loop(graph, ord, SubSeq(todo, 1, half), st)
         IN  IF r.found THEN r
             ELSE has_cycle_loop(graph, ord, SubSeq(todo, half + 1, Len(todo)), r)
    ELSE LET neighbor == todo[1]
         IN  IF neighbor \notin st.visited
             THEN has_cycle(graph, ord, neighbor, st)
             ELSE IF neighbor \in st.rec_stack
                  THEN [st EXCEPT !.found = TRUE]
                  ELSE st

\* A cycle check that looks only for a task that depends on itself.
_creates_cycle_self_only(g, t, D, ord) == t \in D

\* Workflow._creates_cycle for a new task t with dependencies D, the loops
\* running in the order ord.  At the top level rec_stack is empty, so the
\* loop over the graph's ids is the loop over neighbours.
_creates_cycle(g, t, D, ord) ==
    LET graph == WithTask(g, t, D)
    IN  has_cycle_loop(graph, ord, InOrder(DOMAIN graph, ord),
                       [found |-> FALSE, visited |-> {}, rec_stack |-> {}]).found

\* Workflow.add_task: [deps |-> dependency map afterwards, exc |-> ...].
\* own is whether the task's workflow_id is this workflow's id.
Workflow_add_task(w, g, t, D, own, ord) ==
    IF w.status # "draft" THEN [deps |-> g, exc |-> "InvalidEntityStateError"]
    ELSE IF ~own THEN [deps |-> g, exc |-> "InvalidEntityStateError"]
    ELSE IF _creates_cycle(g, t, D, ord)
         THEN [deps |-> g, exc |-> "CircularDependencyError"]
         ELSE [deps |-> WithTask(g, t, D), exc |-> "none"]

\* A remove_task that does not look at the workflow's status.
Workflow_remove_task_unguarded(w, g, t) ==
    IF t \in DOMAIN g THEN [deps |-> WithoutTask(g, t), exc |-> "none"]
    ELSE [deps |-> g, exc |-> "none"]

\* Workflow.remove_task.
Workflow_remove_task(w, g, t) ==
    IF w.status # "draft" THEN [deps |-> g, exc |-> "InvalidEntityStateError"]
    ELSE IF t \in DOMAIN g THEN [deps |-> WithoutTask(g, t), exc |-> "none"]
    ELSE [deps |-> g, exc |-> "none"]

get_root_tasks == {t \in Ids : deps[t] = {}}

\* Workflow.get_ready_tasks over the tasks ts of the loaded workflow.
Workflow_get_ready_tasks(ts) ==
    LET completed_task_ids == {t \in Ids : TaskStatus_is_terminal(ts[t].status)}
    IN  {t \in Ids : /\ TaskStatus_is_waiting(ts[t].status)
                       /\ is_ready_to_execute(t, completed_task_ids)}

get_progress(ts) ==
    IF Ids = {} THEN 0
    ELSE (100 * Cardinality({t \in Ids : TaskStatus_is_terminal(ts[t].status)}))
             \div Cardinality(Ids)

\* ----------------------------------------------------------- repositories

\* A repository query that takes only succeeded rows as completed.
get_ready_tasks_succeeded_only(ts) ==
    LET completed_ids == {t \in Ids : ts[t].status = "succeeded"}
    IN  {t \in Ids : /\ ts[t].status \in {"pending", "queued"}
                       /\ is_ready_to_execute(t, completed_ids)}

\* TaskRepository.get_ready_tasks: waiting tasks whose dependencies are all
\* among the rows with a terminal status.
get_ready_tasks(ts) ==
    LET completed_ids == {t \in Ids : ts[t].status \in
                            {"succeeded", "failed", "cancelled", "skipped"}}
    IN  {t \in Ids : /\ ts[t].status \in {"pending", "queued"}
                       /\ is_ready_to_execute(t, completed_ids)}

\* ts with queue() applied to, and saved for, every task of S.
QueueAll(ts, S) == [t \in Ids |-> IF t \in S THEN Task_queue(ts[t]).t ELSE ts[t]]

\* A loop "for task in todo: task.queue(); save(task)" over rows returned in
\* no specified order: it stops at the first task whose queue() raises, with
\* the tasks visited before it saved.  Every possible outcome:
\* [tasks |-> rows afterwards, exc |-> exception raised or "none"].
QueueLoop(ts, todo) ==
    LET bad  == {t \in todo : Task_queue(ts[t]).exc # "none"}
        good == todo \ bad
    IN  IF bad = {}
        THEN {[tasks |-> QueueAll(ts, good), exc |-> "none"]}
        ELSE {[tasks |-> QueueAll(ts, S), exc |-> "InvalidEntityStateError"] :
                 S \in SUBSET good}

\* ------------------------------------------------- orchestrator internals

_schedule_dependent_tasks(ts) == QueueLoop(ts, get_ready_tasks(ts))

\* A completion check that never marks the workflow failed.
_check_workflow_completion_always_complete(ts, w) ==
    IF Ids = {} THEN RetW(w)
    ELSE IF ~(\A t \in Ids : TaskStatus_is_terminal(ts[t].status)) THEN RetW(w)
    ELSE Workflow_complete(w)

\* [w |-> workflow row afterwards, exc |-> exception raised or "none"], for
\* the task rows ts as they are in the store.
_check_workflow_completion(ts, w) ==
    IF Ids = {} THEN RetW(w)
    ELSE IF ~(\A t \in Ids : TaskStatus_is_terminal(ts[t].status)) THEN RetW(w)
    ELSE IF \A t \in Ids : ts[t].status = "succeeded"
         THEN Workflow_complete(w)
         ELSE Workflow_fail(w)

\* What the caller of a handler sees: "ok", or the exception that left it.
\* wrapped is TRUE for the handlers that re-raise as WorkflowExecutionError.
Outcome(exc, wrapped) ==
    IF exc = "none" THEN "ok"
    ELSE IF wrapped THEN "WorkflowExecutionError" ELSE exc

\* ------------------------------------------------ orchestrator operations

start_workflow ==
    LET r == Workflow_start(wf)
    IN  /\ IF r.exc = "none"
           THEN \E o \in QueueLoop(tasks, get_root_tasks) :
                    /\ tasks' = o.tasks
                    /\ wf' = IF o.exc = "none" THEN r.w ELSE Workflow_fail(r.w).w
                    /\ lastOp' = Op("start_workflow", 0, wf.status, Outcome(o.exc, TRUE),
                                    Repeats("start_workflow", 0))
           ELSE /\ tasks' = tasks
                /\ wf' = Workflow_fail(r.w).w
                /\ lastOp' = Op("start_workflow", 0, wf.status, Outcome(r.exc, TRUE),
                                Repeats("start_workflow", 0))
        /\ UNCHANGED <<deps, policy, crashed, aux>>

\* on_task_completed after task_repo.get_by_id returned the entity task.
handle_completed(t, task) ==
    LET c == Task_complete(task)
    IN  IF c.exc # "none"
        THEN /\ UNCHANGED <<tasks, wf>>
             /\ lastOp' = Op("on_task_completed", t, task.status, Outcome(c.exc, TRUE),
                             Repeats("on_task_completed", t))
        ELSE \E o \in _schedule_dependent_tasks([tasks EXCEPT ![t] = c.t]) :
                 LET k == _check_workflow_completion(o.tasks, wf)
                 IN  /\ tasks' = o.tasks
                     /\ wf' = IF o.exc = "none" THEN k.w ELSE wf
                     /\ lastOp' = Op("on_task_completed", t, task.status,
                                     Outcome(IF o.exc = "none" THEN k.exc ELSE o.exc, TRUE),
                                     Repeats("on_task_completed", t))

on_task_completed(t) ==
    /\ handle_completed(t, tasks[t])
    /\ UNCHANGED <<deps, policy, crashed, aux>>

\* on_task_failed after task_repo.get_by_id returned the entity task.
handle_failed(t, task) ==
    LET f == Task_fail(policy, task)
    IN  IF f.exc # "none"
        THEN /\ UNCHANGED <<tasks, wf>>
             /\ lastOp' = Op("on_task_failed", t, task.status, Outcome(f.exc, TRUE),
                             Repeats("on_task_failed", t))
        ELSE /\ tasks' = [tasks EXCEPT ![t] = f.t]
             /\ wf' = IF TaskStatus_is_terminal(f.t.status)
                      THEN Workflow_fail(wf).w ELSE wf
             /\ lastOp' = Op("on_task_failed", t, task.status, "ok",
                             Repeats("on_task_failed", t))

on_task_failed(t) ==
    /\ handle_failed(t, tasks[t])
    /\ UNCHANGED <<deps, policy, crashed, aux>>

pause_workflow ==
    LET r == Workflow_pause(wf)
    IN  /\ wf' = r.w
        /\ lastOp' = Op("pause_workflow", 0, wf.status, Outcome(r.exc, FALSE),
                        Repeats("pause_workflow", 0))
        /\ UNCHANGED <<deps, policy, tasks, crashed, aux>>

resume_workflow ==
    LET r == Workflow_resume(wf)
    IN  /\ IF r.exc # "none"
           THEN /\ UNCHANGED <<tasks, wf>>
                /\ lastOp' = Op("resume_workflow", 0, wf.status, Outcome(r.exc, FALSE),
                                Repeats("resume_workflow", 0))
           ELSE \E o \in _schedule_dependent_tasks(tasks) :
                    /\ tasks' = o.tasks
                    /\ wf' = r.w
                    /\ lastOp' = Op("resume_workflow", 0, wf.status, Outcome(o.exc, FALSE),
                                    Repeats("resume_workflow", 0))
        /\ UNCHANGED <<deps, policy, crashed, aux>>

cancel_workflow ==
    LET r == Workflow_cancel(wf)
        running_tasks == {t \in Ids : \/ TaskStatus_is_active(tasks[t].status)
                                        \/ TaskStatus_is_waiting(tasks[t].status)}
    IN  /\ IF r.exc # "none"
           THEN UNCHANGED <<tasks, wf>>
           ELSE /\ wf' = r.w
                /\ tasks' = [t \in Ids |-> IF t \in running_tasks
                                             THEN Task_cancel(tasks[t]).t
                                             ELSE tasks[t]]
        /\ lastOp' = Op("cancel_workflow", 0, wf.status, Outcome(r.exc, FALSE),
                        Repeats("cancel_workflow", 0))
        /\ UNCHANGED <<deps, policy, crashed, aux>>

\* ------------------------------------------------------------ environment

\* A worker takes a queued task from the work queue and marks it started.
worker_start(t) ==
    /\ tasks[t].status = "queued"
    /\ tasks' = [tasks EXCEPT ![t] = Task_start(tasks[t]).t]
    /\ lastOp' = Op("worker_start", t, tasks[t].status, "ok", FALSE)
    /\ UNCHANGED <<deps, policy, wf, crashed, aux>>

Next ==
    \/ start_workflow
    \/ \E t \in Ids : on_task_completed(t)
    \/ \E t \in Ids : on_task_failed(t)
    \/ pause_workflow
    \/ resume_workflow
    \/ cancel_workflow
    \/ \E t \in Ids : worker_start(t)

Spec == Init /\ [][Next]_vars

\* ---------------------------------------------------- other specifications

\* A Task operation applied to the persisted task t by whoever holds the
\* entity (executor callback, sweeper): load, call, save unless it raised.
TaskOp(name, t, r) ==
    /\ tasks' = [tasks EXCEPT ![t] = r.t]
    /\ lastOp' = Op(name, t, tasks[t].status, Outcome(r.exc, FALSE), Repeats(name, t))
    /\ UNCHANGED <<deps, policy, wf, crashed, aux>>

task_queue(t) == TaskOp("Task.queue", t, Task_queue(tasks[t]))

task_start(t) == TaskOp("Task.start", t, Task_start(tasks[t]))

task_complete(t) == TaskOp("Task.complete", t, Task_complete(tasks[t]))

task_fail(t) == TaskOp("Task.fail", t, Task_fail(policy, tasks[t]))

task_retry(t) == TaskOp("Task.retry", t, Task_retry(policy, tasks[t]))

task_cancel(t) == TaskOp("Task.cancel", t, Task_cancel(tasks[t]))

task_skip(t) == \E mock \in BOOLEAN : TaskOp("Task.skip", t, Task_skip(tasks[t], mock))

task_timeout(t) == TaskOp("Task.timeout", t, Task_timeout(tasks[t]))

\* Orchestrator operations together with every Task operation.
ExecNext ==
    \/ Next
    \/ \E t \in Ids : task_queue(t)
    \/ \E t \in Ids : task_start(t)
    \/ \E t \in Ids : task_complete(t)
    \/ \E t \in Ids : task_fail(t)
    \/ \E t \in Ids : task_retry(t)
    \/ \E t \in Ids : task_cancel(t)
    \/ \E t \in Ids : task_skip(t)
    \/ \E t \in Ids : task_timeout(t)

ExecSpec == ExecInit /\ [][ExecNext]_vars

\* Largest number of orchestrator crashes in one execution.
MaxCrashes == 1

\* The orchestrator process dies inside on_task_completed(t) after the task
\* was saved as succeeded and before _schedule_dependent_tasks ran.  The
\* work queue delivers at least once, so on_task_completed(t) runs again.
on_task_completed_crash(t) ==
    LET c == Task_complete(tasks[t])
    IN  /\ Cardinality(crashed) < MaxCrashes
        /\ c.exc = "none"
        /\ tasks' = [tasks EXCEPT ![t] = c.t]
        /\ crashed' = crashed \cup {t}
        /\ lastOp' = Op("crash", t, tasks[t].status, "crash", FALSE)
        /\ UNCHANGED <<deps, policy, wf, aux>>

CrashNext ==
    \/ Next
    \/ \E t \in Ids : on_task_completed_crash(t)

CrashSpec == Init /\ [][CrashNext]_vars

\* A worker that holds a running or retrying task reports its end.
worker_reports(t) ==
    /\ TaskStatus_is_active(tasks[t].status)
    /\ (on_task_completed(t) \/ on_task_failed(t))

\* The user resumes a workflow they paused.
user_resumes == wf.status = "paused" /\ resume_workflow

\* Every queued task is eventually started, every running or retrying task
\* eventually reports, every pause is eventually followed by a resume.
Fairness ==
    /\ \A t \in Tasks : WF_vars(t \in Ids /\ worker_start(t))
    /\ \A t \in Tasks : WF_vars(t \in Ids /\ worker_reports(t))
    /\ WF_vars(user_resumes)

FairSpec == Spec /\ Fairness

\* Task ids and dependency ids offered to add_task while a workflow is built.
BuildIds == {1, 2, 3}

\* The orders in which the loops of _creates_cycle may run.  Only one is
\* offered when add_task raises before it reaches _creates_cycle.
BuildOrders == Orders(BuildIds)

LoopOrders(own) ==
    IF wf.status = "draft" /\ own
    THEN BuildOrders
    ELSE {CHOOSE o \in BuildOrders : TRUE}

\* Workflow.add_task with a new Task(id t, dependencies D).
add_task(t, D, own, ord) ==
    LET r == Workflow_add_task(wf, deps, t, D, own, ord)
    IN  /\ deps' = r.deps
        /\ tasks' = IF r.exc = "none"
                    THEN [x \in DOMAIN r.deps |-> IF x = t THEN NewTask ELSE tasks[x]]
                    ELSE tasks
        /\ lastOp' = Op("add_task", t, wf.status, Outcome(r.exc, FALSE),
                        Repeats("add_task", t))
        /\ UNCHANGED <<policy, wf, crashed, aux>>

remove_task(t) ==
    LET r == Workflow_remove_task(wf, deps, t)
    IN  /\ deps' = r.deps
        /\ tasks' = [x \in DOMAIN r.deps |-> tasks[x]]
        /\ lastOp' = Op("remove_task", t, wf.status, Outcome(r.exc, FALSE),
                        Repeats("remove_task", t))
        /\ UNCHANGED <<policy, wf, crashed, aux>>

\* The tasks passed to add_task: dependencies D and whether workflow_id is
\* the workflow's id. add_task raises on a status other than draft before
\* it reads the task, so one task stands for all of them then.
AddedTasks ==
    IF wf.status = "draft"
    THEN [D : SUBSET BuildIds, own : BOOLEAN]
    ELSE {[D |-> BuildIds, own |-> TRUE]}

\* A workflow is built with add_task and remove_task and then run.
BuildNext ==
    \/ \E t \in BuildIds, a \in AddedTasks :
          \E ord \in LoopOrders(a.own) : add_task(t, a.D, a.own, ord)
    \/ \E t \in BuildIds : remove_task(t)
    \/ Next

\* A new draft workflow without tasks; the tasks added to it do not retry.
BuildInit == Created({}) /\ policy = [enabled |-> FALSE, max_retries |-> 0]

BuildSpec == BuildInit /\ [][BuildNext]_vars

MAX_TASKS_PER_WORKFLOW == 1000

\* Number of root tasks a large draft workflow holds to begin with.
BulkStart == 998

\* Dependencies offered to the tasks added to the large workflow.
BulkDeps == {1, 2}

\* The loops of _creates_cycle run over the ids in ascending order.
BulkOrder == [i \in 1..(MAX_TASKS_PER_WORKFLOW + 1) |-> i]

\* A draft workflow to which BulkStart tasks without dependencies were added.
BulkInit ==
    /\ deps = [t \in 1..BulkStart |-> {}]
    /\ policy = [enabled |-> FALSE, max_retries |-> 0]
    /\ tasks = [t \in 1..BulkStart |-> NewTask]
    /\ wf = NewWorkflow
    /\ crashed = {}
    /\ lastOp = Op("create_workflow", 0, "none", "ok", FALSE)
    /\ now = 1
    /\ flows = {}
    /\ calc = NoCalc
    /\ breaker = NoBreaker
    /\ chain = 0

\* One more task is added to the large workflow.
add_next_task ==
    /\ Cardinality(Ids) <= MAX_TASKS_PER_WORKFLOW
    /\ \E D \in SUBSET BulkDeps, own \in BOOLEAN :
          add_task(Cardinality(Ids) + 1, D, own, BulkOrder)

BulkSpec == BulkInit /\ [][add_next_task]_vars

MAX_WORKFLOW_DEPTH == 10

\* Workflow._validate_depth for a workflow whose parent has links links
\* above it: the exception raised, or "none".  The parent chain is not
\* traversed.
_validate_depth(has_parent, links) == "none"

\* Workflow(parent_workflow_id = id of the current workflow): the current
\* workflow becomes the parent of a new draft workflow without tasks.
new_child_workflow ==
    LET exc == _validate_depth(TRUE, chain)
    IN  /\ chain <= MAX_WORKFLOW_DEPTH
        /\ IF exc = "none"
           THEN /\ wf' = NewWorkflow
                /\ deps' = << >>
                /\ tasks' = << >>
                /\ chain' = chain + 1
           ELSE UNCHANGED <<wf, deps, tasks, chain>>
        /\ lastOp' = Op("Workflow", 0, wf.status, Outcome(exc, FALSE),
                        Repeats("Workflow", 0))
        /\ UNCHANGED <<policy, crashed, now, flows, calc, breaker>>

\* Task ids offered to add_task in nested workflows.
NestIds == {1, 2}

\* Workflows are created below one another and given tasks.
NestNext ==
    \/ new_child_workflow
    \/ \E t \in NestIds, D \in SUBSET NestIds :
          add_task(t, D, TRUE, CHOOSE o \in BuildOrders : TRUE)

NestSpec == BuildInit /\ [][NestNext]_vars

\* ExecuteWorkflowUseCase.execute: start() the loaded workflow, queue() each
\* of its ready tasks, then save the workflow and the queued tasks.  An
\* exception leaves the use case before anything is saved.
execute ==
    LET r     == Workflow_start(wf)
        ready == Workflow_get_ready_tasks(tasks)
        bad   == {t \in ready : Task_queue(tasks[t]).exc # "none"}
        exc   == IF r.exc # "none" THEN r.exc
                 ELSE IF bad # {} THEN "InvalidEntityStateError" ELSE "none"
    IN  /\ IF exc = "none"
           THEN /\ wf' = r.w
                /\ tasks' = QueueAll(tasks, ready)
           ELSE UNCHANGED <<tasks, wf>>
        /\ lastOp' = Op("execute", 0, wf.status, Outcome(exc, FALSE),
                        Repeats("execute", 0))
        /\ UNCHANGED <<deps, policy, crashed, aux>>

\* ExecuteWorkflowUseCase.mark_workflow_completed: load, complete(), save.
mark_workflow_completed ==
    LET r == Workflow_complete(wf)
    IN  /\ wf' = r.w
        /\ lastOp' = Op("mark_workflow_completed", 0, wf.status, Outcome(r.exc, FALSE),
                        Repeats("mark_workflow_completed", 0))
        /\ UNCHANGED <<deps, policy, tasks, crashed, aux>>

\* ExecuteWorkflowUseCase.mark_workflow_failed: load, fail(), save.
mark_workflow_failed ==
    LET r == Workflow_fail(wf)
    IN  /\ wf' = r.w
        /\ lastOp' = Op("mark_workflow_failed", 0, wf.status, Outcome(r.exc, FALSE),
                        Repeats("mark_workflow_failed", 0))
        /\ UNCHANGED <<deps, policy, tasks, crashed, aux>>

\* Orchestrator operations together with the operations of the use case.
UseCaseNext ==
    \/ Next
    \/ execute
    \/ mark_workflow_completed
    \/ mark_workflow_failed

UseCaseSpec == Init /\ [][UseCaseNext]_vars

\* ------------------------------------------------------------------ claims

\* C1 (as claimed; checked under ExecSpec): once a task's status is in the
\* Terminal set {succeeded, failed, cancelled, skipped}, no later Task or
\* orchestrator operation changes its status.
C1_TerminalStability ==
    [][\A t \in Ids :
          TaskStatus_is_terminal(tasks[t].status)
              => tasks'[t].status = tasks[t].status]_vars

\* C2 (as claimed; checked under Spec): a task enters running only if every
\* one of its dependencies has status succeeded.
C2_DependencySafety ==
    [][\A t \in Ids :
          (tasks[t].status # "running" /\ tasks'[t].status = "running")
              => \A d \in deps[t] : tasks[d].status = "succeeded"]_vars

\* C3 (Spec): an on_task_completed(t) that directly follows an
\* on_task_completed(t) leaves every persisted task row and the persisted
\* workflow row as the first call left them.
C3_DoubleDelivery ==
    [][(lastOp'.op = "on_task_completed" /\ lastOp'.dup)
          => (tasks' = tasks /\ wf' = wf)]_vars

\* C3 witness: the second of two successive deliveries has been processed
\* for a task the first delivery completed.
C3_Witness ==
    /\ lastOp.op = "on_task_completed"
    /\ lastOp.dup
    /\ lastOp.pre = "succeeded"
    /\ tasks[lastOp.task].status = "succeeded"

\* C4 (as claimed; checked under Spec): on_task_completed for a task whose
\* status is already Terminal returns without an error outcome and changes
\* no persisted state.
C4_TerminalCompletionIgnored ==
    [][(/\ lastOp' # lastOp
        /\ lastOp'.op = "on_task_completed"
        /\ TaskStatus_is_terminal(lastOp'.pre))
          => (lastOp'.outcome = "ok" /\ tasks' = tasks /\ wf' = wf)]_vars

\* C5 (as claimed; checked under Spec): while the workflow's status is
\* paused, no task goes from pending to queued.
C5_PausedNoScheduling ==
    [][(wf.status = "paused" /\ wf'.status = "paused")
          => \A t \in Ids :
                 ~(tasks[t].status = "pending" /\ tasks'[t].status = "queued")]_vars

\* C6 (as claimed; checked under Spec): resume on a paused workflow ends
\* without error, the workflow is running, and no pending task with all of
\* its dependencies Terminal is left unqueued.
C6_ResumeSchedules ==
    (lastOp.op = "resume_workflow" /\ lastOp.pre = "paused")
        => /\ lastOp.outcome = "ok"
           /\ wf.status = "running"
           /\ \A t \in Ids :
                  tasks[t].status = "pending"
                      => \E d \in deps[t] : ~TaskStatus_is_terminal(tasks[d].status)

\* C7 (as claimed; checked under ExecSpec): a cancel that succeeds leaves the
\* workflow cancelled with completed_at set, every task that was not
\* Terminal cancelled, and every Terminal task as it was.
C7_CancelCancelsAll ==
    [][(/\ lastOp'.op = "cancel_workflow"
        /\ lastOp'.outcome = "ok"
        /\ wf'.status # wf.status)
          => /\ wf'.status = "cancelled"
             /\ wf'.completed_at # NoTime
             /\ \A t \in Ids :
                    tasks'[t].status =
                        IF TaskStatus_is_terminal(tasks[t].status)
                        THEN tasks[t].status ELSE "cancelled"]_vars

\* C8 (as claimed; checked under FairSpec): every workflow that was started
\* eventually reaches a Terminal workflow status.
C8_Converges ==
    [](wf.started_at # NoTime => <>WorkflowStatus_is_terminal(wf.status))

\* C9 (as claimed; checked under CrashSpec): once the completion of a task
\* whose handler crashed after the save is delivered again, the dependents
\* of the task that are ready have been queued and the workflow completion
\* has been evaluated.
C9_RedeliveryRecovers ==
    (lastOp.op = "on_task_completed" /\ lastOp.task \in crashed)
        => /\ \A u \in Ids :
                  (lastOp.task \in deps[u] /\ tasks[u].status = "pending")
                      => \E d \in deps[u] : ~TaskStatus_is_terminal(tasks[d].status)
           /\ (\A u \in Ids : tasks[u].status = "succeeded") => wf.status # "running"

\* C10 (ExecSpec): every task's retry_count is at most max_retries of its
\* retry policy.
C10_RetryBound ==
    \A t \in Ids : tasks[t].retry_count <= policy.max_retries

\* C10 witness: a retry() was refused on a task that has used all of its
\* retries.
C10_Witness ==
    /\ lastOp.op = "Task.retry"
    /\ lastOp.outcome = "MaxRetryExceededError"
    /\ policy.enabled
    /\ policy.max_retries >= 1
    /\ tasks[lastOp.task].retry_count = policy.max_retries

\* C11 (Spec): with retries enabled and max_retries = n, an on_task_failed
\* for a running or retrying task that has failed fewer than n times leaves
\* it retrying with retry_count one higher and the workflow row as it was;
\* the next one after n failures leaves the task failed and the workflow
\* failed with completed_at set.  Nothing but on_task_failed changes
\* retry_count, so retry_count is the number of failures handled so far.
C11_FailureEscalation ==
    [][LET t == lastOp'.task
       IN  /\ (/\ lastOp'.op = "on_task_failed"
               /\ policy.enabled
               /\ TaskStatus_is_active(tasks[t].status))
                 => IF tasks[t].retry_count < policy.max_retries
                    THEN /\ tasks'[t].status = "retrying"
                         /\ tasks'[t].retry_count = tasks[t].retry_count + 1
                         /\ wf' = wf
                    ELSE /\ tasks'[t].status = "failed"
                         /\ tasks'[t].retry_count = tasks[t].retry_count
                         /\ wf'.status = "failed"
                         /\ wf'.completed_at # NoTime
           /\ lastOp'.op # "on_task_failed"
                 => \A u \in Ids : tasks'[u].retry_count = tasks[u].retry_count]_vars

\* C11 witness: the failure after the last retry has been handled.
C11_Witness ==
    /\ lastOp.op = "on_task_failed"
    /\ lastOp.pre = "retrying"
    /\ lastOp.outcome = "ok"
    /\ policy.enabled
    /\ policy.max_retries >= 1
    /\ tasks[lastOp.task].status = "failed"
    /\ tasks[lastOp.task].retry_count = policy.max_retries
    /\ wf.status = "failed"

\* C12 (as claimed; checked under Spec): whenever the workflow's status is
\* Terminal, every task of the workflow has a Terminal task status.
C12_Conservation ==
    WorkflowStatus_is_terminal(wf.status)
        => \A t \in Ids : TaskStatus_is_terminal(tasks[t].status)

\* C13 (as claimed; checked under UseCaseSpec): whenever the workflow's
\* status is succeeded, every task is succeeded or skipped.
C13_SucceededConsistency ==
    wf.status = "succeeded"
        => \A t \in Ids : tasks[t].status \in {"succeeded", "skipped"}

\* C14 (as claimed; checked under ExecSpec): once the workflow was started,
\* no operation lowers its progress.
C14_ProgressMonotone ==
    [][wf.started_at # NoTime => get_progress(tasks') >= get_progress(tasks)]_vars

C17_QueuedOnlyFromPending ==
    [][\A t \in Ids :
          /\ (tasks'[t].status = "queued" /\ tasks[t].status # "queued")
                 => tasks[t].status = "pending"
          /\ tasks[t].status # "pending" => tasks'[t].status # "pending"]_vars

\* C17 witness: a queue() on a task that is already queued or running was
\* refused and left the task as it was.
C17_Witness ==
    /\ lastOp.op = "Task.queue"
    /\ lastOp.pre \in {"queued", "running"}
    /\ lastOp.outcome = "InvalidEntityStateError"
    /\ tasks[lastOp.task].status = lastOp.pre

\* C18 (as claimed; checked under Spec): on_task_completed for a running
\* task of a running workflow, while another task is queued or running,
\* ends without error, queues exactly the pending tasks whose dependencies
\* are then all Terminal, and leaves every other task's status as it was.
C18_CompletionSchedules ==
    [][LET t == lastOp'.task
       IN  (/\ lastOp'.op = "on_task_completed"
            /\ tasks[t].status = "running"
            /\ wf.status = "running"
            /\ \E u \in Ids \ {t} : tasks[u].status \in {"queued", "running"})
              => /\ lastOp'.outcome = "ok"
                 /\ tasks'[t].status = "succeeded"
                 /\ \A u \in Ids \ {t} :
                        tasks'[u].status =
                            IF /\ tasks[u].status = "pending"
                               /\ \A d \in deps[u] :
                                      TaskStatus_is_terminal(tasks'[d].status)
                            THEN "queued"
                            ELSE tasks[u].status]_vars

\* C19 (Spec): a start_workflow on a draft workflow that ends without error
\* leaves the workflow running with started_at set, the tasks without
\* dependencies queued and every other task pending.
C19_StartQueuesRoots ==
    [][(/\ lastOp'.op = "start_workflow"
        /\ wf.status = "draft"
        /\ lastOp'.outcome = "ok")
          => /\ wf'.status = "running"
             /\ wf'.started_at # NoTime
             /\ \A t \in Ids :
                    tasks'[t].status = IF deps[t] = {} THEN "queued" ELSE "pending"]_vars

\* C19 witness: a draft workflow with a root and a dependent task has been
\* started.
C19_Witness ==
    /\ lastOp.op = "start_workflow"
    /\ lastOp.pre = "draft"
    /\ lastOp.outcome = "ok"
    /\ \E t \in Ids : deps[t] = {} /\ tasks[t].status = "queued"
    /\ \E t \in Ids : deps[t] # {} /\ tasks[t].status = "pending"

\* C20 (as claimed; checked under UseCaseSpec): neither ready-tasks query
\* returns a task that has a dependency whose status is failed or cancelled.
C20_ReadyExcludesFailedDeps ==
    \A t \in Workflow_get_ready_tasks(tasks) \cup get_ready_tasks(tasks) :
        \A d \in deps[t] : tasks[d].status \notin {"failed", "cancelled"}

\* The ids reachable from the ids of S along the dependencies of g.
RECURSIVE ReachableFrom(_, _)
ReachableFrom(g, S) ==
    LET more == S \cup UNION {g[x] : x \in S \cap DOMAIN g}
    IN  IF more = S THEN S ELSE ReachableFrom(g, more)

\* Some task of g depends, directly or through other tasks, on itself.
Cyclic(g) == \E t \in DOMAIN g : t \in ReachableFrom(g, g[t])

\* C21 (BuildSpec): the dependency graph over the workflow's tasks never
\* has a cycle, and an add_task that ends in CircularDependencyError leaves
\* the tasks and their dependencies as they were.
C21_Acyclic ==
    /\ []~Cyclic(deps)
    /\ [][(lastOp'.op = "add_task" /\ lastOp'.outcome = "CircularDependencyError")
             => (deps' = deps /\ tasks' = tasks)]_vars

\* C21 witness: an add_task was refused for a task that is not in the
\* workflow and that a task of the workflow depends on.
C21_Witness ==
    /\ lastOp.op = "add_task"
    /\ lastOp.outcome = "CircularDependencyError"
    /\ lastOp.task \notin Ids
    /\ \E a \in Ids : lastOp.task \in deps[a]

\* C22 (as claimed; checked under BuildSpec): every id in a task's
\* dependencies is the id of a task of the workflow.
C22_DependencyClosure ==
    \A t \in Ids : deps[t] \subseteq Ids

\* C23 (BuildSpec): the tasks and their dependencies change only while the
\* workflow is draft; add_task and remove_task in any other status end in
\* InvalidEntityStateError and change nothing.
C23_TopologyOnlyInDraft ==
    [][/\ (deps' # deps \/ DOMAIN tasks' # DOMAIN tasks) => wf.status = "draft"
       /\ (lastOp'.op \in {"add_task", "remove_task"} /\ wf.status # "draft")
             => /\ lastOp'.outcome = "InvalidEntityStateError"
                /\ deps' = deps
                /\ tasks' = tasks]_vars

\* C23 witness: a remove_task for a task of a workflow that had been started
\* was refused and the task is still there.
C23_Witness ==
    /\ lastOp.op = "remove_task"
    /\ lastOp.pre \notin {"draft", "none"}
    /\ lastOp.outcome = "InvalidEntityStateError"
    /\ lastOp.task \in Ids

\* C24 (as claimed; checked under BulkSpec): a workflow never holds more
\* than MAX_TASKS_PER_WORKFLOW tasks.
C24_TaskLimit ==
    Cardinality(Ids) <= MAX_TASKS_PER_WORKFLOW

\* C25 (as claimed; checked under NestSpec): no workflow has more than
\* MAX_WORKFLOW_DEPTH parent_workflow_id links above it.
C25_DepthBound ==
    chain <= MAX_WORKFLOW_DEPTH


\* The statuses from which the lifecycle table allows a Task operation.
AllowedFrom(name) ==
    CASE name = "Task.queue" -> {"pending"}
      [] name = "Task.start" -> {"pending", "queued"}
      [] name \in {"Task.complete", "Task.fail", "Task.timeout"} ->
             {"running", "retrying"}
      [] name = "Task.retry" -> {"failed", "timeout"}
      [] name = "Task.cancel" ->
             {s \in TaskStatusEnum : ~TaskStatus_is_terminal(s)}

\* C26: a Task operation (queue, start, complete, fail, timeout, retry,
\* cancel) invoked on a task whose status is outside the operation's
\* allowed-from set fails with InvalidEntityStateError and leaves the task
\* as it was.
C26_GuardedTransitions ==
    [][\A t \in Ids :
         (/\ lastOp'.op \in {"Task.queue", "Task.start", "Task.complete",
                             "Task.fail", "Task.timeout", "Task.retry",
                             "Task.cancel"}
          /\ lastOp'.task = t
          /\ tasks[t].status \notin AllowedFrom(lastOp'.op))
         => (lastOp'.outcome = "InvalidEntityStateError" /\ tasks'[t] = tasks[t])]_vars

\* ------------------------------------------------------------ wall clock

\* Largest value of the clock.
MaxClock == 2

\* Time passes between two calls of datetime.utcnow().
tick ==
    /\ now < MaxClock
    /\ now' = now + 1
    /\ lastOp' = Op("tick", 0, "none", "ok", FALSE)
    /\ UNCHANGED <<deps, policy, tasks, wf, crashed, flows, calc, chain, breaker>>

TimeNext == ExecNext \/ tick

\* Every Task and orchestrator operation under a clock that advances.
TimeSpec == ExecInit /\ [][TimeNext]_vars

\* C27: with a non-decreasing clock, a task in a terminal status has
\* completed_at set, and started_at is not later than completed_at whenever
\* both are set.
C27_TimestampOrder ==
    \A t \in Ids :
        /\ TaskStatus_is_terminal(tasks[t].status) => tasks[t].completed_at # NoTime
        /\ (tasks[t].started_at # NoTime /\ tasks[t].completed_at # NoTime)
               => tasks[t].started_at <= tasks[t].completed_at

\* The first half of C27 alone.
C27_TerminalHasCompletedAt ==
    \A t \in Ids :
        TaskStatus_is_terminal(tasks[t].status) => tasks[t].completed_at # NoTime

\* A task that timed out while running and was retried later.
C27_TimeoutThenRetry ==
    \E t \in Ids :
        /\ lastOp.op = "Task.retry" /\ lastOp.task = t
        /\ lastOp.pre = "timeout" /\ lastOp.outcome = "ok"
        /\ tasks[t].started_at > tasks[t].completed_at
        /\ tasks[t].completed_at # NoTime

\* ------------------------------------------------------------ retry delay

\* Largest max_retries, initial_delay, max_delay, backoff_base and attempt
\* of the retry policies whose delays are computed.
MaxDelayRetries == 2

MaxInitialDelay == 2

MaxMaxDelay == 4

MaxBackoffBase == 2

MaxAttempt == 3

RetryStrategyEnum == {"none", "fixed", "exponential", "linear"}

\* The retry policies that RetryPolicy.__post_init__ accepts.
DelayPolicies ==
    {p \in [max_retries : 0..MaxDelayRetries, strategy : RetryStrategyEnum,
            initial_delay : 0..MaxInitialDelay, max_delay : 0..MaxMaxDelay,
            backoff_base : 0..MaxBackoffBase] :
        /\ p.max_retries >= 0
        /\ p.initial_delay >= 0
        /\ p.max_delay >= p.initial_delay
        /\ p.backoff_base >= 1}

RECURSIVE Pow(_, _)
\* b ** e for e >= 0.
Pow(b, e) == IF e = 0 THEN 1 ELSE b * Pow(b, e - 1)

Min(a, b) == IF a <= b THEN a ELSE b

calculate_delay(p, attempt) ==
    IF attempt >= p.max_retries THEN 0
    ELSE CASE p.strategy = "none" -> 0
           [] p.strategy = "fixed" -> p.initial_delay
           [] p.strategy = "linear" ->
                  Min(p.initial_delay * (attempt + 1), p.max_delay)
           [] p.strategy = "exponential" ->
                  Min(p.initial_delay * Pow(p.backoff_base, attempt), p.max_delay)

\* A RetryPolicy has been constructed and nothing else exists.
DelayInit ==
    /\ policy \in DelayPolicies
    /\ deps = <<>>
    /\ tasks = <<>>
    /\ wf = NewWorkflow
    /\ crashed = {}
    /\ lastOp = Op("RetryPolicy", 0, "none", "ok", FALSE)
    /\ now = 1
    /\ flows = {}
    /\ calc = NoCalc
    /\ breaker = NoBreaker
    /\ chain = 0

\* One call policy.calculate_delay(attempt); calc keeps this call and the
\* one before it.
call_calculate_delay(attempt) ==
    /\ calc' = [attempt |-> attempt,
                delay |-> calculate_delay(policy, attempt),
                prev_attempt |-> calc.attempt,
                prev_delay |-> calc.delay,
                calls |-> Min(calc.calls + 1, 2)]
    /\ lastOp' = Op("calculate_delay", 0, "none", "ok", Repeats("calculate_delay", 0))
    /\ UNCHANGED <<deps, policy, tasks, wf, crashed, now, flows, chain, breaker>>

DelayNext == \E attempt \in 0..MaxAttempt : call_calculate_delay(attempt)

DelaySpec == DelayInit /\ [][DelayNext]_vars

\* C28: for the linear and exponential strategies calculate_delay never
\* exceeds max_delay, and of two calls the one with the larger attempt
\* returns a delay at least as long.
C28_DelayMonotone ==
    (policy.strategy \in {"linear", "exponential"} /\ calc.calls >= 1) =>
        /\ calc.delay <= policy.max_delay
        /\ (calc.calls >= 2 /\ calc.prev_attempt <= calc.attempt)
               => calc.prev_delay <= calc.delay

\* The second half of C28 alone: the delay never exceeds max_delay.
C28_DelayCapped ==
    (policy.strategy \in {"linear", "exponential"} /\ calc.calls >= 1) =>
        calc.delay <= policy.max_delay

\* C29: calculate_delay returns initial_delay for every attempt under the
\* fixed strategy and 0 for every attempt under the none strategy.
C29_FixedAndNone ==
    calc.calls >= 1 =>
        /\ policy.strategy = "fixed" => calc.delay = policy.initial_delay
        /\ policy.strategy = "none" => calc.delay = 0

\* The second half of C29 alone: the none strategy always gives 0.
C29_NoneIsZero ==
    (calc.calls >= 1 /\ policy.strategy = "none") => calc.delay = 0

\* ---------------------------------------------------- concurrent handlers

\* Ids of the tasks of the workflow whose handlers run concurrently.
ConcTasks == {1, 2}

\* Number of handlers that can be between their load and their save.
MaxFlows == 1

\* A handler on_task_completed or on_task_failed (kind) for task t returns
\* from task_repo.get_by_id and holds the entity it loaded.
flow_load(kind, t) ==
    /\ Cardinality(flows) < MaxFlows
    /\ flows' = flows \cup {[kind |-> kind, task |-> t, loaded |-> tasks[t]]}
    /\ lastOp' = Op("get_by_id", t, tasks[t].status, "ok", FALSE)
    /\ UNCHANGED <<deps, policy, tasks, wf, crashed, now, calc, chain, breaker>>

\* The handler goes on with the entity it holds: the Task operation, the
\* save and the rest of the handler.
flow_run(f) ==
    /\ f \in flows
    /\ IF f.kind = "on_task_completed"
       THEN handle_completed(f.task, f.loaded)
       ELSE handle_failed(f.task, f.loaded)
    /\ flows' = flows \ {f}
    /\ UNCHANGED <<deps, policy, crashed, now, calc, chain, breaker>>

ConcNext ==
    \/ Next
    \/ \E kind \in {"on_task_completed", "on_task_failed"}, t \in Ids : flow_load(kind, t)
    \/ \E f \in flows : flow_run(f)

\* Orchestrator operations with handlers that interleave at load and save.
ConcSpec == Created(ConcTasks) /\ [][ConcNext]_vars

\* C30: a terminal status of a task that is persisted is not replaced by
\* another status when a handler on_task_completed or on_task_failed for
\* that task saves, whatever other handler ran between its load and its save.
C30_TerminalNotOverwritten ==
    [][\A t \in Ids :
         (/\ lastOp'.op \in {"on_task_completed", "on_task_failed"}
          /\ lastOp'.task = t
          /\ TaskStatus_is_terminal(tasks[t].status))
         => tasks'[t].status = tasks[t].status]_vars

\* C31: a handler on_task_completed or on_task_failed that finishes after
\* cancel_workflow has persisted the cancellation (the worker's late result,
\* loaded before or after the cancellation) leaves the workflow cancelled
\* and every task in a terminal status.
C31_CancelWinsOverLateResult ==
    [][(/\ lastOp'.op \in {"on_task_completed", "on_task_failed"}
        /\ wf.status = "cancelled")
       => (/\ wf'.status = "cancelled"
           /\ \A t \in Ids : TaskStatus_is_terminal(tasks'[t].status))]_vars

\* ------------------------------------------------------ database sessions

\* get_db at its exit: one session is one transaction, committed when the
\* request ended without an exception and rolled back otherwise.  s holds
\* the rows as they were when the session was opened, ts and w the rows the
\* handler flushed.
get_db_commit_always(s, ts, w, outcome) == [tasks |-> ts, wf |-> w]

get_db(s, ts, w, outcome) ==
    IF outcome = "ok"
    THEN [tasks |-> ts, wf |-> w]
    ELSE [tasks |-> s.tasks, wf |-> s.wf]

\* A request arrives: get_db opens a session and yields it.
get_db_enter ==
    /\ flows = {}
    /\ flows' = {[kind |-> "session", tasks |-> tasks, wf |-> wf]}
    /\ lastOp' = Op("get_db", 0, wf.status, "ok", FALSE)
    /\ UNCHANGED <<deps, policy, tasks, wf, crashed, now, calc, chain, breaker>>

\* A store save raises inside on_task_completed(t) after the task was saved
\* as succeeded and after the dependents of S, not all the ready ones, were
\* saved as queued; the handler leaves with WorkflowExecutionError.
on_task_completed_save_fails(t) ==
    LET c == Task_complete(tasks[t])
        ts == [tasks EXCEPT ![t] = c.t]
        good == {x \in get_ready_tasks(ts) : Task_queue(ts[x]).exc = "none"}
    IN  /\ c.exc = "none"
        /\ good # {}
        /\ \E S \in SUBSET good :
               /\ S # good
               /\ tasks' = QueueAll(ts, S)
        /\ lastOp' = Op("on_task_completed", t, tasks[t].status,
                        "WorkflowExecutionError", Repeats("on_task_completed", t))
        /\ UNCHANGED <<deps, policy, wf, crashed, aux>>

\* A store save raises inside start_workflow after the workflow was saved as
\* running and the root tasks of S, not all of them, were saved as queued.
\* The except branch calls workflow.fail() and saves again; that save is
\* accepted or raises as well (saved).
start_workflow_save_fails ==
    LET r == Workflow_start(wf)
    IN  /\ r.exc = "none"
        /\ get_root_tasks # {}
        /\ \E S \in SUBSET get_root_tasks, saved \in BOOLEAN :
               /\ S # get_root_tasks
               /\ tasks' = QueueAll(tasks, S)
               /\ wf' = IF saved THEN Workflow_fail(r.w).w ELSE r.w
        /\ lastOp' = Op("start_workflow", 0, wf.status, "WorkflowExecutionError",
                        Repeats("start_workflow", 0))
        /\ UNCHANGED <<deps, policy, crashed, aux>>

\* The handlers that the HTTP endpoints call on the orchestrator built by
\* get_workflow_orchestrator on the session of the request.
endpoint_handler ==
    \/ start_workflow
    \/ pause_workflow
    \/ resume_workflow
    \/ cancel_workflow
    \/ start_workflow_save_fails

\* The handlers for the workers' reports, called on an orchestrator built
\* the same way: each one writes in a single transaction.
callback_handler ==
    \/ \E t \in Ids : on_task_completed(t)
    \/ \E t \in Ids : on_task_failed(t)
    \/ \E t \in Ids : on_task_completed_save_fails(t)

\* The handler that the request runs on the session.
in_session ==
    /\ flows # {}
    /\ lastOp.op = "get_db"
    /\ (endpoint_handler \/ callback_handler)

\* The request is over: get_db commits or rolls back and closes the session.
get_db_exit ==
    /\ flows # {}
    /\ lastOp.op # "get_db"
    /\ \E s \in flows :
           LET r == get_db(s, tasks, wf, lastOp.outcome)
           IN  /\ tasks' = r.tasks
               /\ wf' = r.wf
               /\ lastOp' = Op(IF lastOp.outcome = "ok" THEN "commit" ELSE "rollback",
                               lastOp.task, lastOp.op, lastOp.outcome,
                               tasks # s.tasks \/ wf # s.wf)
    /\ flows' = {}
    /\ UNCHANGED <<deps, policy, crashed, now, calc, chain, breaker>>

TxNext ==
    \/ get_db_enter
    \/ in_session
    \/ get_db_exit
    \/ flows = {} /\ \E t \in Ids : worker_start(t)

\* Every orchestrator handler runs in a session of its own.
TxSpec == Init /\ [][TxNext]_vars

CheckNext ==
    \/ Next
    \/ \E t \in Ids : task_skip(t)
    \/ \E t \in Ids : task_cancel(t)

CheckSpec == Created(ConcTasks) /\ [][CheckNext]_vars

\* The same with tasks that time out, every task being allowed one retry,
\* so that a task can be in each of the nine statuses.
ReadyNext ==
    \/ CheckNext
    \/ \E t \in Ids : task_timeout(t)

ReadyInit ==
    /\ Created(ConcTasks)
    /\ policy = [enabled |-> TRUE, max_retries |-> 1]

ReadySpec == ReadyInit /\ [][ReadyNext]_vars

\* on_task_completed saved its task as succeeded in this step.  When every
\* task is terminal afterwards nothing was left to queue, so
\* _check_workflow_completion ran on the rows tasks'.
CompletionStep ==
    /\ lastOp'.op = "on_task_completed"
    /\ lastOp'.task \in Ids
    /\ tasks'[lastOp'.task] # tasks[lastOp'.task]

AllTerminal(ts) == \A t \in Ids : TaskStatus_is_terminal(ts[t].status)

AllSucceeded(ts) == \A t \in Ids : ts[t].status = "succeeded"

MAX_EXPONENTIAL_BACKOFF == 300

\* RetryPolicy(max_retries=2, strategy=exponential, initial_delay=1,
\* backoff_base=2) with the default max_delay, retries enabled.
ExamplePolicy ==
    [enabled |-> TRUE, max_retries |-> 2, strategy |-> "exponential",
     initial_delay |-> 1, max_delay |-> MAX_EXPONENTIAL_BACKOFF,
     backoff_base |-> 2]

\* One task with the example policy in a new workflow.
RetryInit ==
    /\ deps = [t \in ExecTasks |-> {}]
    /\ policy = ExamplePolicy
    /\ tasks = [t \in ExecTasks |-> NewTask]
    /\ wf = NewWorkflow
    /\ crashed = {}
    /\ lastOp = Op("create_workflow", 0, "none", "ok", FALSE)
    /\ now = 1
    /\ flows = {}
    /\ calc = NoCalc
    /\ breaker = NoBreaker
    /\ chain = 0

\* The delay after which the retrying task t is to be requeued:
\* retry_policy.calculate_delay(retry_count).
requeue_delay(t) ==
    /\ tasks[t].status = "retrying"
    /\ calc' = [attempt |-> tasks[t].retry_count,
                delay |-> calculate_delay(policy, tasks[t].retry_count),
                prev_attempt |-> calc.attempt,
                prev_delay |-> calc.delay,
                calls |-> Min(calc.calls + 1, 2)]
    /\ lastOp' = Op("calculate_delay", t, tasks[t].status, "ok",
                    Repeats("calculate_delay", t))
    /\ UNCHANGED <<deps, policy, tasks, wf, crashed, now, flows, chain, breaker>>

RetryNext ==
    \/ ExecNext
    \/ \E t \in Ids : requeue_delay(t)

RetrySpec == RetryInit /\ [][RetryNext]_vars

\* C34: under the example policy the requeue delay of a task that entered
\* retrying is 1 after the first failure (retry_count = 1) and 2 after the
\* second (retry_count = 2).
C34_ExampleDelays ==
    calc.calls >= 1 =>
        /\ calc.attempt = 1 => calc.delay = 1
        /\ calc.attempt = 2 => calc.delay = 2

\* C35: in every persisted state the repository query get_ready_tasks and
\* the entity query Workflow.get_ready_tasks return the same tasks: exactly
\* those in pending or queued whose dependencies are all tasks of the
\* workflow in a terminal status.
C35_ReadyQueriesAgree ==
    /\ get_ready_tasks(tasks) = Workflow_get_ready_tasks(tasks)
    /\ get_ready_tasks(tasks) =
           {t \in Ids : /\ tasks[t].status \in {"pending", "queued"}
                        /\ \A d \in deps[t] :
                               /\ d \in Ids
                               /\ tasks[d].status \in
                                      {"succeeded", "failed", "cancelled", "skipped"}}

\* A waiting task is returned by both queries whose dependency was skipped,
\* failed or cancelled.
C35_Witness ==
    \E t \in get_ready_tasks(tasks) \cap Workflow_get_ready_tasks(tasks) :
        \E d \in deps[t] : tasks[d].status \in {"skipped", "failed", "cancelled"}

GuardedTaskOps ==
    {"Task.queue", "Task.start", "Task.complete", "Task.fail", "Task.retry",
     "Task.cancel"}

\* C37 (ExecSpec): a Task operation that its guard rejects, with
\* InvalidEntityStateError or MaxRetryExceededError, leaves the status,
\* retry_count, result, error, started_at and completed_at of the task as
\* they were.
C37_RejectedLeavesTask ==
    [][(/\ lastOp'.op \in GuardedTaskOps
        /\ lastOp'.outcome \in {"InvalidEntityStateError", "MaxRetryExceededError"}) =>
           LET old == tasks[lastOp'.task]
               new == tasks'[lastOp'.task]
           IN  /\ new.status = old.status
               /\ new.retry_count = old.retry_count
               /\ new.result = old.result
               /\ new.error = old.error
               /\ new.started_at = old.started_at
               /\ new.completed_at = old.completed_at]_vars

\* fail() was rejected on a task that had succeeded, which still carries its
\* result and no error.
C37_Witness ==
    /\ lastOp.op = "Task.fail"
    /\ lastOp.pre = "succeeded"
    /\ lastOp.outcome = "InvalidEntityStateError"
    /\ tasks[lastOp.task].status = "succeeded"
    /\ tasks[lastOp.task].result = "result"
    /\ tasks[lastOp.task].error = "none"

\* --------------------------------------------------------- circuit breaker

\* Largest failure_threshold and timeout a breaker is built with, largest
\* number of calls awaiting the protected function at once, largest value
\* of the clock and largest failure count followed.
MaxThreshold == 2

MaxTimeout == 2

MaxCalls == 2

MaxBreakerClock == 3

MaxFailures == 4

CircuitState == {"closed", "open", "half_open"}

\* How the protected function ends: it returns, raises expected_exception
\* or raises another exception.
FuncResults == {"returned", "expected_exception", "other_exception"}

\* CircuitBreaker.__init__.  The statistics (_total_calls, _total_failures,
\* _total_rejections, _success_count) are written and never read by call().
NewBreaker(failure_threshold, timeout) ==
    [failure_threshold |-> failure_threshold, timeout |-> timeout,
     state |-> "closed", failure_count |-> 0, last_failure_time |-> NoTime,
     awaiting |-> 0]

\* A breaker as built, next to a store that holds no task.
BreakerInit ==
    /\ deps = << >>
    /\ policy = [enabled |-> FALSE, max_retries |-> 0]
    /\ tasks = << >>
    /\ wf = NewWorkflow
    /\ crashed = {}
    /\ lastOp = Op("CircuitBreaker", 0, "none", "ok", FALSE)
    /\ now = 1
    /\ flows = {}
    /\ calc = NoCalc
    /\ chain = 0
    /\ \E failure_threshold \in 1..MaxThreshold, timeout \in 0..MaxTimeout :
           breaker = NewBreaker(failure_threshold, timeout)

\* A reset check that does not look at the time.
_should_attempt_reset_no_timeout(b) ==
    IF b.state # "open" THEN FALSE
    ELSE IF b.last_failure_time = NoTime THEN FALSE
    ELSE TRUE

_should_attempt_reset(b) ==
    IF b.state # "open" THEN FALSE
    ELSE IF b.last_failure_time = NoTime THEN FALSE
    ELSE now - b.last_failure_time >= b.timeout

\* A success handler that keeps the failure count.
_on_success_keeps_count(b) ==
    IF b.state = "half_open" THEN [b EXCEPT !.state = "closed"] ELSE b

_on_success(b) ==
    LET b1 == [b EXCEPT !.failure_count = 0]
    IN  IF b1.state = "half_open" THEN [b1 EXCEPT !.state = "closed"] ELSE b1

_on_failure(b) ==
    LET b1 == [b EXCEPT !.failure_count = b.failure_count + 1,
                        !.last_failure_time = now]
        b2 == IF b1.failure_count >= b1.failure_threshold
              THEN [b1 EXCEPT !.state = "open"] ELSE b1
    IN  IF b2.state = "half_open" THEN [b2 EXCEPT !.state = "open"] ELSE b2

\* call() up to the await of the protected function: an open breaker whose
\* timeout has passed becomes half-open; a breaker that is then open
\* rejects the call; otherwise the function is invoked and the call waits.
call ==
    LET b1 == IF _should_attempt_reset(breaker)
              THEN [breaker EXCEPT !.state = "half_open"] ELSE breaker
    IN  /\ IF b1.state = "open"
           THEN /\ breaker' = b1
                /\ lastOp' = Op("CircuitBreaker.call", 0, breaker.state,
                                "CircuitBreakerOpenError", FALSE)
           ELSE /\ breaker.awaiting < MaxCalls
                /\ breaker' = [b1 EXCEPT !.awaiting = b1.awaiting + 1]
                /\ lastOp' = Op("CircuitBreaker.call", 0, breaker.state,
                                "await", FALSE)
        /\ UNCHANGED <<deps, policy, tasks, wf, crashed, now, flows, calc, chain>>

\* call() after the await: the function has ended with result r.
call_resume(r) ==
    LET b1 == CASE r = "returned" -> _on_success(breaker)
                [] r = "expected_exception" -> _on_failure(breaker)
                [] OTHER -> breaker
    IN  /\ breaker.awaiting > 0
        /\ r = "expected_exception" => breaker.failure_count < MaxFailures
        /\ breaker' = [b1 EXCEPT !.awaiting = b1.awaiting - 1]
        /\ lastOp' = Op("CircuitBreaker.call.resume", 0, breaker.state, r, FALSE)
        /\ UNCHANGED <<deps, policy, tasks, wf, crashed, now, flows, calc, chain>>

\* CircuitBreaker.reset.
reset ==
    /\ breaker' = [breaker EXCEPT !.state = "closed", !.failure_count = 0,
                                  !.last_failure_time = NoTime]
    /\ lastOp' = Op("CircuitBreaker.reset", 0, breaker.state, "ok", FALSE)
    /\ UNCHANGED <<deps, policy, tasks, wf, crashed, now, flows, calc, chain>>

\* Time passes between two calls of datetime.utcnow().
breaker_tick ==
    /\ now < MaxBreakerClock
    /\ now' = now + 1
    /\ lastOp' = Op("tick", 0, "none", "ok", FALSE)
    /\ UNCHANGED <<deps, policy, tasks, wf, crashed, flows, calc, chain, breaker>>

BreakerNext ==
    \/ call
    \/ \E r \in FuncResults : call_resume(r)
    \/ reset
    \/ breaker_tick

BreakerSpec == BreakerInit /\ [][BreakerNext]_vars

\* C38 (BreakerSpec): a call() made while the breaker is open and less than
\* timeout seconds after the last recorded failure raises
\* CircuitBreakerOpenError, does not invoke the protected function and
\* leaves the state and the failure count as they were.
C38_OpenRejects ==
    [][(/\ lastOp'.op = "CircuitBreaker.call"
        /\ breaker.state = "open"
        /\ breaker.last_failure_time # NoTime
        /\ now - breaker.last_failure_time < breaker.timeout) =>
           /\ lastOp'.outcome = "CircuitBreakerOpenError"
           /\ breaker'.awaiting = breaker.awaiting
           /\ breaker'.state = breaker.state
           /\ breaker'.failure_count = breaker.failure_count]_vars

\* A call was rejected one second after the failure that opened a breaker
\* whose timeout is two seconds.
C38_Witness ==
    /\ lastOp.op = "CircuitBreaker.call"
    /\ lastOp.pre = "open"
    /\ lastOp.outcome = "CircuitBreakerOpenError"
    /\ breaker.state = "open"
    /\ breaker.timeout = 2
    /\ now - breaker.last_failure_time = 1

\* C39 (BreakerSpec): with failure_threshold >= 1 the breaker is closed only
\* while the failure count is below failure_threshold, also when calls
\* overlap at the await; a call whose function raises the expected
\* exception while the breaker is half-open leaves it open; a call whose
\* function returns while the breaker is half-open leaves it closed with a
\* failure count of 0.
C39_BreakerInvariants ==
    /\ breaker.state = "closed" => breaker.failure_count < breaker.failure_threshold
    /\ [][/\ breaker'.state = "closed" =>
                 breaker'.failure_count < breaker'.failure_threshold
          /\ (/\ lastOp'.op = "CircuitBreaker.call.resume"
              /\ breaker.state = "half_open"
              /\ lastOp'.outcome = "expected_exception") =>
                 breaker'.state = "open"
          /\ (/\ lastOp'.op = "CircuitBreaker.call.resume"
              /\ breaker.state = "half_open"
              /\ lastOp'.outcome = "returned") =>
                 /\ breaker'.state = "closed"
                 /\ breaker'.failure_count = 0]_vars

\* A call returned while the breaker was half-open and another call was
\* still awaiting the function; the breaker is closed with no failure
\* counted.
C39_Witness ==
    /\ lastOp.op = "CircuitBreaker.call.resume"
    /\ lastOp.pre = "half_open"
    /\ lastOp.outcome = "returned"
    /\ breaker.state = "closed"
    /\ breaker.failure_count = 0
    /\ breaker.awaiting >= 1
====
